---------------------------- MODULE Spec2Model ----------------------------
(***************************************************************************)
(* A model of the code-review analysis scripts:                            *)
(*   01-extract-code-review.py  the harvesting run (main, process_project) *)
(*   02-extract-scores.py       the extractors, the per-document record    *)
(*                              builder and the aggregation                *)
(*                                                                         *)
(* Text is modelled as a sequence of lines and a line as a sequence of     *)
(* tokens.  A token is a string: a metric name, a phrase, a maximal run of *)
(* digits, a punctuation character, a blank or a word.  Tokens are joined  *)
(* without separator, so that adjacency in the token sequence is adjacency *)
(* in the line.                                                            *)
(***************************************************************************)
EXTENDS Integers, Sequences, FiniteSets, TLC

VARIABLES
    \* extract_scores (02-extract-scores.py, 23-59)
    scores,            \* the dict scores: metric name -> None or <<int>>
    current_category,  \* None or <<metric name>>
    line,              \* the line the loop body ran on last
    lineNo,            \* how many lines the loop has consumed
    before,            \* scores and current_category before that line
    \* extract_all_data (02-extract-scores.py, 90-116)
    data,              \* the dict data: header title -> collected text
    current_header,    \* None or <<title>>
    secLine,           \* the line the loop body ran on last
    secNo,             \* how many lines the loop has consumed
    secBefore,         \* data and current_header before that line
    secText            \* the lines the loop has consumed so far

VARIABLES
    \* process_markdown_files, calculate_average_scores, save_average_scores
    \* (02-extract-scores.py, 118-270)
    corpus,            \* the files below docs/gitlab-code-review: path -> text
    outBase,           \* whether the directory docs/extracted_scores exists
    outBase0,          \* ... and whether it did initially
    files,             \* the files below docs/extracted_scores: path -> JSON
    pc,                \* "idle", or "walk" inside process_markdown_files
    todo,              \* the .md files the walk has yet to reach
    files_processed,   \* the counter of process_markdown_files
    runs,              \* how many runs have ended
    failedNow,         \* the documents of this run whose processing raised
    clean,             \* no document has raised in any run so far
    summaries,         \* per ended run: the summary it wrote (None if none)
    aggInput,          \* the files the last aggregation walked over
    lastAvg            \* what the last calculate_average_scores returned

VARIABLES
    \* main and process_project (01-extract-code-review.py, 48-151)
    hpc,                    \* where the harvesting run is
    total_projects,         \* len(projects)
    projIdx,                \* how many projects the loop of main has left behind
    nFiles,                 \* len(md_files) of the project being processed
    fileIdx,                \* how many of them the loop has left behind
    files_downloaded,       \* the counter of process_project
    total_files_downloaded, \* the counter of main
    local,                  \* the documents written: <<project, file>>
    decodeFailed            \* a fetched document could not be decoded

VARIABLES
    \* extract_additional_fields (02-extract-scores.py, 61-88)
    overall_score,          \* the local overall_score
    key_improvement_items,  \* the local key_improvement_items
    in_improvements,        \* the local in_improvements
    narLine,                \* the line the loop has just handled
    narNo,                  \* how many lines the loop has handled
    narBefore,              \* the three locals before that line
    lastOverallLine,        \* the last line so far that holds "Overall Score:"
    blocks,                 \* how often the flag went from false to true
    itemBlocks              \* per item: the number of the block it came from

scoreVars == <<scores, current_category, line, lineNo, before>>
narVars == <<overall_score, key_improvement_items, in_improvements, narLine,
             narNo, narBefore, lastOverallLine, blocks, itemBlocks>>
harvestVars == <<hpc, total_projects, projIdx, nFiles, fileIdx,
                 files_downloaded, total_files_downloaded, local, decodeFailed>>
secVars == <<data, current_header, secLine, secNo, secBefore, secText>>
pipeVars == <<corpus, outBase, outBase0, files, pc, todo, files_processed,
              runs, failedNow, clean, summaries, aggInput, lastAvg>>

vars == <<scoreVars, secVars, narVars, pipeVars, harvestVars>>

\* Python's None, and a present value v, as a sequence of length 0 or 1.
None == <<>>
Some(v) == <<v>>

-----------------------------------------------------------------------------
\* The keys of the dict scores, in insertion (= iteration) order.
Metrics == <<"Correctness and Functionality",
             "Code Quality and Maintainability",
             "Performance and Efficiency",
             "Security and Vulnerability Assessment",
             "Code Consistency and Style",
             "Scalability and Extensibility",
             "Error Handling and Robustness">>

MetricSet == {Metrics[i] : i \in DOMAIN Metrics}

\* int() on a run of digits: the digit runs the bounded texts use.
IntOf == [d \in {"0", "6", "7", "8", "10", "12", "14"} |->
            CASE d = "0" -> 0 [] d = "6" -> 6 [] d = "7" -> 7 [] d = "8" -> 8
              [] d = "10" -> 10 [] d = "12" -> 12 [] d = "14" -> 14]

DigitRuns == DOMAIN IntOf

\* `category in line`: the name occurs in the line.
Contains(ln, tok) == \E i \in DOMAIN ln : ln[i] = tok

\* Where the pattern (\d+)/10 matches in a line: a run of digits directly
\* followed by "/" and by a run of digits that starts with 10.
MatchAt(ln, i) ==
    /\ i + 2 <= Len(ln)
    /\ ln[i] \in DigitRuns
    /\ ln[i + 1] = "/"
    /\ ln[i + 2] = "10"

SetMin(S) == CHOOSE x \in S : \A y \in S : x <= y

\* (as if the pattern were (-?\d+)/10)
ReSearchSigned(ln) ==
    LET at == {i \in DOMAIN ln : MatchAt(ln, i)}
        i  == SetMin(at)
    IN  IF at = {} THEN None
        ELSE IF i > 1 /\ ln[i - 1] = "-" THEN Some(0 - IntOf[ln[i]])
        ELSE Some(IntOf[ln[i]])

\* (as if the pattern were (\d)/10)
ReSearchOneDigit(ln) ==
    LET at == {i \in DOMAIN ln : MatchAt(ln, i)}
    IN  IF at = {} THEN None ELSE Some(IntOf[ln[SetMin(at)]] % 10)

\* re.search(score_pattern, line) followed by int(match.group(1)): the
\* leftmost match, None when there is none.
ReSearch(ln) ==
    LET at == {i \in DOMAIN ln : MatchAt(ln, i)}
    IN  IF at = {} THEN None ELSE Some(IntOf[ln[SetMin(at)]])

\* The category the inner for loop stops at: the first key of scores, in
\* key order, that occurs in the line; None when no key does.
FirstCategory(ln) ==
    LET hit == {i \in DOMAIN Metrics : Contains(ln, Metrics[i])}
    IN  IF hit = {} THEN None ELSE Some(Metrics[SetMin(hit)])

\* Lines 43-50: the inner for loop over the categories.
CategoryStep(st, ln) ==
    LET c == FirstCategory(ln)
        m == ReSearch(ln)
    IN  IF c = None THEN st
        ELSE [scores |-> IF m # None THEN [st.scores EXCEPT ![c[1]] = m]
                         ELSE st.scores,
              cur |-> c]

\* Lines 53-57: the value of the pending category from a later line.
FallbackStepKeepsCursor(st, ln) ==
    LET m == ReSearch(ln)
    IN  IF st.cur # None /\ st.scores[st.cur[1]] = None /\ m # None
        THEN [scores |-> [st.scores EXCEPT ![st.cur[1]] = m], cur |-> st.cur]
        ELSE st

FallbackStep(st, ln) ==
    LET m == ReSearch(ln)
    IN  IF st.cur # None /\ st.scores[st.cur[1]] = None /\ m # None
        THEN [scores |-> [st.scores EXCEPT ![st.cur[1]] = m], cur |-> None]
        ELSE st

\* Lines 41-57: one iteration of the loop over the lines.
LineStep(st, ln) == FallbackStep(CategoryStep(st, ln), ln)

\* Lines 25-39: the state before the loop.
ScoresInit == [scores |-> [m \in MetricSet |-> None], cur |-> None]

\* extract_scores on a text given as its lines (content.split('\n')).
RECURSIVE ScanFrom(_, _, _)
ScanFrom(st, text, i) ==
    IF i > Len(text) THEN st ELSE ScanFrom(LineStep(st, text[i]), text, i + 1)

extract_scores(text) == ScanFrom(ScoresInit, text, 1).scores

-----------------------------------------------------------------------------
(* The lines the scan of extract_scores is checked on. *)

MaxLines == 3

ScoreText(d) == <<d, "/", "10">>

ScanDigits == {"7", "12"}

ScanLines ==
    {<<>>, <<"text">>}
    \cup {<<m>> : m \in MetricSet}
    \cup {<<m, ":", " ">> \o ScoreText(d) : m \in MetricSet, d \in ScanDigits}
    \cup {<<m, ":", " ", "-">> \o ScoreText("7") : m \in MetricSet}
    \cup {ScoreText(d) : d \in ScanDigits}
    \cup {<<"-">> \o ScoreText("7"), <<"7", " ", "/", "10">>}
    \cup {<<Metrics[2], " ", Metrics[1]>>,
          <<Metrics[2], " ", Metrics[1], ":", " ">> \o ScoreText("7")}

InitScores ==
    /\ scores = ScoresInit.scores
    /\ current_category = ScoresInit.cur
    /\ line = <<>>
    /\ lineNo = 0
    /\ before = ScoresInit

\* One iteration of `for line in lines` of extract_scores.
ScanLine ==
    /\ lineNo < MaxLines
    /\ \E ln \in ScanLines :
         LET st == LineStep([scores |-> scores, cur |-> current_category], ln)
         IN  /\ scores' = st.scores
             /\ current_category' = st.cur
             /\ line' = ln
    /\ before' = [scores |-> scores, cur |-> current_category]
    /\ lineNo' = lineNo + 1


-----------------------------------------------------------------------------
(* extract_scores: the claims checked under SpecScores. *)

NamedLine(m, d) == <<m, ":", " ">> \o ScoreText(d)
NegativeLine(m, d) == <<m, ":", " ", "-">> \o ScoreText(d)

\* C2, as stated: once a metric has a value, no later line changes it (the
\* value returned is that of the first successful parse).
C2_FirstParseKept ==
    \A m \in MetricSet :
        before.scores[m] # None => scores[m] = before.scores[m]

\* A later line naming the metric with another score has replaced its value.
C2_Witness ==
    \E m \in MetricSet :
        /\ before.scores[m] = Some(7)
        /\ line = NamedLine(m, "12")
        /\ scores[m] = Some(12)

\* C3, as stated: exactly the seven metric names are keys, and every value
\* is None or an integer from 0 to 10.
C3_SevenKeysZeroToTen ==
    /\ DOMAIN scores = MetricSet
    /\ \A m \in MetricSet : scores[m] = None \/ scores[m][1] \in 0..10

\* C3, amended: exactly the seven metric names are keys, and every value is
\* None or a non-negative integer (a score above 10 is kept as written).
C3_SevenKeysNonNegative ==
    /\ DOMAIN scores = MetricSet
    /\ \A m \in MetricSet :
        scores[m] = None \/ (Len(scores[m]) = 1 /\ scores[m][1] \in Nat)

\* Some metrics are set, one of them above 10, and some are absent.
C3_Witness ==
    /\ \E m \in MetricSet : scores[m] = Some(12)
    /\ \E m \in MetricSet : scores[m] = Some(7)
    /\ \E m \in MetricSet : scores[m] = None

\* C4, as stated: for every metric M and every integer n, negative ones
\* included, the one-line text "M: n/10" yields n for M and leaves the other
\* six metrics absent.
C4_EveryIntegerReturned ==
    \A m \in MetricSet, d \in ScanDigits :
        /\ (lineNo = 1 /\ line = NamedLine(m, d))
              => scores = [ScoresInit.scores EXCEPT ![m] = Some(IntOf[d])]
        /\ (lineNo = 1 /\ line = NegativeLine(m, d))
              => scores = [ScoresInit.scores EXCEPT ![m] = Some(0 - IntOf[d])]

\* C4, amended: for every metric M and every non-negative integer n, the
\* one-line text "M: n/10" yields n for M and leaves the other six absent.
C4_NonNegativeReturned ==
    \A m \in MetricSet, d \in ScanDigits :
        (lineNo = 1 /\ line = NamedLine(m, d))
            => scores = [ScoresInit.scores EXCEPT ![m] = Some(IntOf[d])]

\* The one-line text "M: 12/10" has been scanned, for the last metric.
C4_Witness ==
    /\ lineNo = 1
    /\ line = NamedLine(Metrics[7], "12")
    /\ scores[Metrics[7]] = Some(12)

\* A line that has no metric name and holds a score.
ScoreOnly(ln) == FirstCategory(ln) = None /\ ReSearch(ln) # None

\* C5, as stated: after a line that contains metric name M and no score,
\* with M not set, a next line holding a score n and no metric name assigns
\* n to M and clears the cursor; with the cursor clear, a further score-only
\* line assigns nothing.
C5_NextLineAssignsAnyNamed ==
    [][/\ \A m \in MetricSet :
            (/\ Contains(line, m) /\ ReSearch(line) = None
             /\ scores[m] = None
             /\ ScoreOnly(line'))
            => (scores'[m] = ReSearch(line') /\ current_category' = None)
       /\ (current_category = None /\ ScoreOnly(line'))
            => (scores' = scores /\ current_category' = None)]_vars

\* C5, amended: the same, for the metric M that is the first one, in the
\* order of the enumeration, that the line contains.
C5_NextLineAssignsFirstNamed ==
    [][/\ \A m \in MetricSet :
            (/\ FirstCategory(line) = Some(m) /\ ReSearch(line) = None
             /\ scores[m] = None
             /\ ScoreOnly(line'))
            => (/\ scores' = [scores EXCEPT ![m] = ReSearch(line')]
                /\ current_category' = None)
       /\ (current_category = None /\ ScoreOnly(line'))
            => (scores' = scores /\ current_category' = None)]_vars

\* A name-only line, the score line after it, and a further score line that
\* assigned nothing.
C5_Witness ==
    /\ lineNo = 3
    /\ ScoreOnly(line)
    /\ before.cur = None
    /\ \E m \in MetricSet :
        /\ scores[m] = Some(7)
        /\ \A o \in MetricSet \ {m} : scores[o] = None
    /\ line = ScoreText("12")

-----------------------------------------------------------------------------
(* extract_all_data *)

\* header_pattern allows one to six '#'.
MaxHeaderLevel == 6

\* str.strip(): the text without its leading and trailing blanks.
Strip(s) ==
    LET inked == {i \in DOMAIN s : s[i] # " "}
    IN  IF inked = {} THEN <<>>
        ELSE SubSeq(s, SetMin(inked), CHOOSE x \in inked : \A y \in inked : x >= y)

\* How many '#' a line starts with.
LeadingHashes(ln) ==
    CHOOSE k \in 0..Len(ln) :
        /\ \A i \in 1..k : ln[i] = "#"
        /\ k < Len(ln) => ln[k + 1] # "#"

\* header_pattern.match(line): ^(#{1,6})\s+(.*)
IsHeader(ln) ==
    LET k == LeadingHashes(ln)
    IN  /\ 1 <= k /\ k <= MaxHeaderLevel
        /\ k < Len(ln)
        /\ ln[k + 1] = " "

\* match.group(2).strip()
HeaderTitle(ln) == Strip(SubSeq(ln, LeadingHashes(ln) + 1, Len(ln)))

\* The key of the text before the first header.
MainKey == <<"main">>

\* data[key] = value, for a key that may be new.
DictSet(d, key, value) ==
    [k \in DOMAIN d \cup {key} |-> IF k = key THEN value ELSE d[k]]

\* `if current_header:`: neither None nor the empty string.
Truthy(h) == h # None /\ h[1] # <<>>

\* Lines 104-115: one iteration of the loop over the lines.
SectionStep(st, ln) ==
    IF IsHeader(ln)
    THEN [data |-> DictSet(st.data, HeaderTitle(ln), <<>>),
          cur |-> Some(HeaderTitle(ln))]
    ELSE IF Truthy(st.cur)
    THEN [data |-> [st.data EXCEPT ![st.cur[1]] = @ \o ln \o <<"\n">>],
          cur |-> st.cur]
    ELSE [data |-> [st.data EXCEPT ![MainKey] = @ \o ln \o <<"\n">>],
          cur |-> st.cur]

\* Lines 97-101: the state before the loop.
SectionsInit == [data |-> [k \in {MainKey} |-> <<>>], cur |-> None]

\* extract_all_data on a text given as its lines (content.splitlines()).
RECURSIVE SectionsFrom(_, _, _)
SectionsFrom(st, text, i) ==
    IF i > Len(text) THEN st
    ELSE SectionsFrom(SectionStep(st, text[i]), text, i + 1)

extract_all_data(text) == SectionsFrom(SectionsInit, text, 1).data

\* The lines the scan of extract_all_data is checked on.
MaxSecLines == 4

Hashes(k) == [i \in 1..k |-> "#"]

SecTitles == {<<"Title">>, <<"main">>, <<"Next", " ", "steps">>}

SecLines ==
    {<<>>, <<"body">>, <<"pre">>, <<" ", "#", " ", "Title">>, <<"#", "Title">>}
    \cup {Hashes(1) \o <<" ">> \o t : t \in SecTitles}
    \cup {Hashes(1) \o <<" ">>, Hashes(2) \o <<" ", " ">>}
    \cup {Hashes(2) \o <<" ", " ", "Title", " ">>}
    \cup {Hashes(MaxHeaderLevel) \o <<" ", "Title">>,
          Hashes(MaxHeaderLevel + 1) \o <<" ", "Title">>}

InitSections ==
    /\ data = SectionsInit.data
    /\ current_header = SectionsInit.cur
    /\ secLine = <<>>
    /\ secNo = 0
    /\ secBefore = SectionsInit
    /\ secText = <<>>

\* One iteration of `for line in content.splitlines()` of extract_all_data.
ScanSectionLine ==
    /\ secNo < MaxSecLines
    /\ \E ln \in SecLines :
         LET st == SectionStep([data |-> data, cur |-> current_header], ln)
         IN  /\ data' = st.data
             /\ current_header' = st.cur
             /\ secLine' = ln
    /\ secBefore' = [data |-> data, cur |-> current_header]
    /\ secNo' = secNo + 1
    /\ secText' = Append(secText, secLine')


\* C10, as stated: every non-header line is appended, followed by a newline,
\* to the buffer of the most recently seen header, or to the buffer "main"
\* when no header has been seen yet; also after a header whose title is
\* empty after trimming.
C10_AppendedToLastHeader ==
    (secNo > 0 /\ ~IsHeader(secLine)) =>
        LET key == IF secBefore.cur = None THEN MainKey ELSE secBefore.cur[1]
        IN  data = [secBefore.data EXCEPT ![key] = @ \o secLine \o <<"\n">>]

\* The header lines of a text whose title is t.
HeadersOf(text, t) ==
    {i \in DOMAIN text : IsHeader(text[i]) /\ HeaderTitle(text[i]) = t}

\* The titles of the header lines of a text.
TitlesOf(text) == {HeaderTitle(text[i]) : i \in {j \in DOMAIN text : IsHeader(text[j])}}

\* The last header line of a text whose title is t.
LastHeader(text, t) ==
    CHOOSE i \in HeadersOf(text, t) : \A j \in HeadersOf(text, t) : i >= j

\* The lines that follow line j of a text, up to the next header line.
Following(text, j) ==
    LET later == {i \in (j + 1)..Len(text) : IsHeader(text[i])}
    IN  SubSeq(text, j + 1, IF later = {} THEN Len(text) ELSE SetMin(later) - 1)

\* Lines, each followed by a newline, as one text.
RECURSIVE Joined(_)
Joined(lines) ==
    IF lines = <<>> THEN <<>>
    ELSE Head(lines) \o <<"\n">> \o Joined(Tail(lines))

\* The titles C13 speaks of: those of more than one header line, and the
\* reserved key when a header line has it as its title.
Reopened(text) ==
    {t \in TitlesOf(text) :
        Cardinality(HeadersOf(text, t)) > 1 \/ t = MainKey}

\* C13, as stated: under a title that occurs more than once, and under the
\* reserved key when a header has it as its title, the value is exactly the
\* non-header lines that follow the title's last header line, up to the next
\* header line; what was collected before is dropped.
C13_LastOccurrenceOnly ==
    \A t \in Reopened(secText) :
        /\ t \in DOMAIN data
        /\ data[t] = Joined(Following(secText, LastHeader(secText, t)))

\* C13 on the texts none of whose header lines has an empty title: there
\* it holds; it fails only where C10 fails.
C13_LastOccurrenceOnlyTitled ==
    <<>> \notin TitlesOf(secText) => C13_LastOccurrenceOnly

-----------------------------------------------------------------------------
(* extract_additional_fields *)

PhraseOverall == "Overall Score:"
PhraseItems == "Key Improvement Items:"

\* Where a token occurs first in a line (Len + 1 when it does not).
FirstIndex(ln, tok) ==
    SetMin({i \in DOMAIN ln : ln[i] = tok} \cup {Len(ln) + 1})

\* line.split(phrase)[1]: what stands between the first occurrence of the
\* phrase and the next one (or the end of the line).
SplitSecond(ln, phrase) ==
    LET rest == SubSeq(ln, FirstIndex(ln, phrase) + 1, Len(ln))
    IN  SubSeq(rest, 1, FirstIndex(rest, phrase) - 1)

\* str.lstrip()
LStrip(s) ==
    LET inked == {i \in DOMAIN s : s[i] # " "}
    IN  IF inked = {} THEN <<>> ELSE SubSeq(s, SetMin(inked), Len(s))

\* Lines 82-87: the item of a line of the improvements block; the pattern
\* ^\s*(?:\d+\.\s*|\-\s*)(.*) takes off a leading "<digits>." or "-".
ItemOf(ln) ==
    LET l == LStrip(ln)
    IN  IF Len(l) >= 2 /\ l[1] \in DigitRuns /\ l[2] = "."
        THEN Strip(SubSeq(l, 3, Len(l)))
        ELSE IF Len(l) >= 1 /\ l[1] = "-"
        THEN Strip(SubSeq(l, 2, Len(l)))
        ELSE Strip(ln)

\* The loop body, had the marker line started the list of items afresh.
NarrativeStepRestartsItems(st, ln) ==
    IF Contains(ln, PhraseOverall)
    THEN [st EXCEPT !.overall_score = Some(Strip(SplitSecond(ln, PhraseOverall)))]
    ELSE IF Contains(ln, PhraseItems)
    THEN [st EXCEPT !.in_improvements = TRUE, !.key_improvement_items = <<>>]
    ELSE IF st.in_improvements
    THEN IF Strip(ln) = <<>> \/ LStrip(ln)[1] = "#"
         THEN [st EXCEPT !.in_improvements = FALSE]
         ELSE [st EXCEPT !.key_improvement_items = Append(@, ItemOf(ln))]
    ELSE st

\* Lines 69-87: one iteration of the loop over the lines.
NarrativeStep(st, ln) ==
    IF Contains(ln, PhraseOverall)
    THEN [st EXCEPT !.overall_score = Some(Strip(SplitSecond(ln, PhraseOverall)))]
    ELSE IF Contains(ln, PhraseItems)
    THEN [st EXCEPT !.in_improvements = TRUE]
    ELSE IF st.in_improvements
    THEN IF Strip(ln) = <<>> \/ LStrip(ln)[1] = "#"
         THEN [st EXCEPT !.in_improvements = FALSE]
         ELSE [st EXCEPT !.key_improvement_items = Append(@, ItemOf(ln))]
    ELSE st

\* Lines 63-67: the state before the loop.
NarrativeInit ==
    [overall_score |-> None, key_improvement_items |-> <<>>,
     in_improvements |-> FALSE]

RECURSIVE NarrativeFrom(_, _, _)
NarrativeFrom(st, text, i) ==
    IF i > Len(text) THEN st
    ELSE NarrativeFrom(NarrativeStep(st, text[i]), text, i + 1)

\* extract_additional_fields on a text given as its lines.
extract_additional_fields(text) == NarrativeFrom(NarrativeInit, text, 1)

\* The lines the scan of extract_additional_fields is checked on.
MaxNarLines == 5

NarLines ==
    {<<>>, <<" ">>,
     <<"#", " ", "Next">>, <<" ", "#", "Next">>,
     <<"-", " ", "Add", " ", "tests">>,
     <<"7", ".", " ", "Improve", " ", "docs">>,
     <<" ", "plain", " ">>,
     <<PhraseItems>>,
     <<PhraseOverall, " ", "7", "/", "10">>,
     <<PhraseOverall>>,
     <<PhraseOverall, " ", "7", " ", PhraseOverall, " ", "8">>}

InitNarrative ==
    /\ overall_score = NarrativeInit.overall_score
    /\ key_improvement_items = NarrativeInit.key_improvement_items
    /\ in_improvements = NarrativeInit.in_improvements
    /\ narLine = <<>>
    /\ narNo = 0
    /\ narBefore = NarrativeInit
    /\ lastOverallLine = None
    /\ blocks = 0
    /\ itemBlocks = <<>>

\* One iteration of `for line in lines` of extract_additional_fields.
ScanNarrativeLine ==
    /\ narNo < MaxNarLines
    /\ \E ln \in NarLines :
         LET cur == [overall_score |-> overall_score,
                     key_improvement_items |-> key_improvement_items,
                     in_improvements |-> in_improvements]
             st == NarrativeStep(cur, ln)
         IN  /\ overall_score' = st.overall_score
             /\ key_improvement_items' = st.key_improvement_items
             /\ in_improvements' = st.in_improvements
             /\ narLine' = ln
             /\ narBefore' = cur
             /\ lastOverallLine' =
                    IF Contains(ln, PhraseOverall) THEN Some(ln)
                    ELSE lastOverallLine
             /\ blocks' =
                    IF st.in_improvements /\ ~in_improvements THEN blocks + 1
                    ELSE blocks
             /\ itemBlocks' =
                    IF Len(st.key_improvement_items) > Len(key_improvement_items)
                    THEN Append(itemBlocks, blocks)
                    ELSE itemBlocks
    /\ narNo' = narNo + 1

\* A line handled while the flag was true that is not the marker line.
InBlockLine ==
    /\ narNo > 0
    /\ narBefore.in_improvements
    /\ ~Contains(narLine, PhraseItems)

\* The line ended the block: it is blank or starts, after blanks, with '#';
\* the flag is false and no item was added.
EndedBlock ==
    /\ Strip(narLine) = <<>> \/ LStrip(narLine)[1] = "#"
    /\ ~in_improvements
    /\ key_improvement_items = narBefore.key_improvement_items

\* The line added exactly one item, at the end, and the block stays open.
AddedOneItem ==
    /\ Strip(narLine) # <<>> /\ LStrip(narLine)[1] # "#"
    /\ in_improvements
    /\ Len(key_improvement_items) = Len(narBefore.key_improvement_items) + 1
    /\ SubSeq(key_improvement_items, 1, Len(narBefore.key_improvement_items))
           = narBefore.key_improvement_items

\* The items so far are kept, in their order, by the line just handled.
ItemsKept ==
    /\ Len(key_improvement_items) >= Len(narBefore.key_improvement_items)
    /\ SubSeq(key_improvement_items, 1, Len(narBefore.key_improvement_items))
           = narBefore.key_improvement_items

\* C11, as stated: every line handled while the flag is true, other than
\* the marker line, either ends the block without adding anything or adds
\* exactly one item; the items found so far are kept in document order, over
\* all blocks.
C11_InBlockEndsOrAddsOne ==
    narNo > 0 =>
        /\ ItemsKept
        /\ InBlockLine => (EndedBlock \/ AddedOneItem)

\* C11, amended: the same for every such line that does not hold the phrase
\* "Overall Score:" either; a line of the block that holds this phrase
\* adds nothing and leaves the block open, and a line outside a block adds
\* nothing.
C11_InBlockEndsOrAddsOneButOverall ==
    narNo > 0 =>
        /\ ItemsKept
        /\ (InBlockLine /\ ~Contains(narLine, PhraseOverall))
              => (EndedBlock \/ AddedOneItem)
        /\ (InBlockLine /\ Contains(narLine, PhraseOverall))
              => /\ in_improvements
                 /\ key_improvement_items = narBefore.key_improvement_items
        /\ ~narBefore.in_improvements
              => key_improvement_items = narBefore.key_improvement_items

\* Two items, the first from the first block and the second, just added,
\* from a second block opened after the first one had ended.
C11_Witness ==
    /\ itemBlocks = <<1, 2>>
    /\ InBlockLine
    /\ AddedOneItem

-----------------------------------------------------------------------------
(* JSON documents.  A document is a dict (a function on its keys); a value *)
(* carries its JSON type, and its content in a field of that type.  A     *)
(* float is held in hundredths.                                            *)

JNull == [t |-> "null"]
JInt(n) == [t |-> "int", i |-> n]
JFloat(h) == [t |-> "float", f |-> h]
JStr(s) == [t |-> "str", s |-> s]
JList(l) == [t |-> "list", l |-> l]
JDict(d) == [t |-> "dict", d |-> d]

\* The sentinel "N/A".
NA == <<"N", "/", "A">>

KeyOverall == "Overall Score"
KeyItems == "Key Improvement Items"
KeyFull == "Full Markdown Data"
KeyMetadata == "Metadata"

\* Lines 156-157: `overall if overall else "N/A"`; None and the empty string
\* give "N/A".
PersistedOverall(ov) ==
    IF ov # None /\ ov[1] # <<>> THEN JStr(ov[1]) ELSE JStr(NA)

\* What stands in a line after the first occurrence of a phrase.
AfterPhrase(ln, phrase) == SubSeq(ln, FirstIndex(ln, phrase) + 1, Len(ln))

\* C12, as stated: the overall value is the trimmed remainder, after the
\* phrase "Overall Score:", of the last line that holds the phrase; when no
\* line holds it, the value is absent and the record holds "N/A".
C12_LastLineRemainder ==
    IF lastOverallLine = None
    THEN /\ overall_score = None
         /\ PersistedOverall(overall_score) = JStr(NA)
    ELSE overall_score =
            Some(Strip(AfterPhrase(lastOverallLine[1], PhraseOverall)))

\* Lines 153-163: the record process_markdown_files builds from a document.
BuildRecord(text) ==
    LET sc == extract_scores(text)
        af == extract_additional_fields(text)
        ov == af.overall_score
    IN  [k \in MetricSet \cup {KeyOverall, KeyItems, KeyFull} |->
            IF k \in MetricSet
            THEN (IF sc[k] = None THEN JNull ELSE JInt(sc[k][1]))
            ELSE IF k = KeyOverall
            THEN PersistedOverall(ov)
            ELSE IF k = KeyItems
            THEN JList(af.key_improvement_items)
            ELSE JDict(extract_all_data(text))]

-----------------------------------------------------------------------------
(* calculate_average_scores *)

\* Lines 193-202: the list metrics.
AvgMetrics == Metrics \o <<KeyOverall>>
AvgMetricSet == MetricSet \cup {KeyOverall}

\* The digits after a decimal point, in hundredths.
FracOf == [d \in DigitRuns |->
            CASE d = "0" -> 0 [] d = "6" -> 60 [] d = "7" -> 70 [] d = "8" -> 80
              [] d = "10" -> 10 [] d = "12" -> 12 [] d = "14" -> 14]

\* float() of a text, in hundredths; None when it raises ValueError.
ParseFloat(s) ==
    CASE Len(s) = 1 /\ s[1] \in DigitRuns -> Some(100 * IntOf[s[1]])
      [] Len(s) = 2 /\ s[1] = "-" /\ s[2] \in DigitRuns
            -> Some(0 - 100 * IntOf[s[2]])
      [] Len(s) = 3 /\ s[1] \in DigitRuns /\ s[2] = "." /\ s[3] \in DigitRuns
            -> Some(100 * IntOf[s[1]] + FracOf[s[3]])
      [] OTHER -> None

\* isinstance(value, (int, float)) and float(value), in hundredths.
IsNumber(value) == value.t \in {"int", "float"}
ToFloat(value) == IF value.t = "int" THEN 100 * value.i ELSE value.f

\* data.get(metric)
DictGet(d, key) == IF key \in DOMAIN d THEN d[key] ELSE JNull

\* Lines 225-243: what one record adds to the sum of a metric: None when it
\* adds nothing (and is not counted).
ContributionZeroFilled(rec, metric) ==
    LET value == DictGet(rec, metric)
    IN  IF value.t = "null" THEN Some(0)
        ELSE IF IsNumber(value) THEN Some(ToFloat(value))
        ELSE IF metric = KeyOverall /\ value.t = "str" /\ Contains(value.s, "/")
        THEN ParseFloat(Strip(SubSeq(value.s, 1, FirstIndex(value.s, "/") - 1)))
        ELSE None

Contribution(rec, metric) ==
    LET value == DictGet(rec, metric)
    IN  IF value.t = "null" THEN None
        ELSE IF metric = KeyOverall
        THEN IF value.t = "str" /\ Contains(value.s, "/")
             THEN ParseFloat(Strip(SubSeq(value.s, 1, FirstIndex(value.s, "/") - 1)))
             ELSE IF IsNumber(value) THEN Some(ToFloat(value))
             ELSE None
        ELSE IF IsNumber(value) THEN Some(ToFloat(value))
        ELSE None

\* round(x, 2) of x = sum / count, in hundredths: the nearest hundredth, a
\* tie going to the even one.
Round2(sum, count) ==
    LET q == sum \div count
        r == sum % count
    IN  IF 2 * r < count THEN q
        ELSE IF 2 * r > count THEN q + 1
        ELSE IF q % 2 = 0 THEN q ELSE q + 1

\* A path is [dir |-> the directories from docs on, name |-> [stem, ext]].
MarkerDir == "code-review-scores"

\* The roots of the two walks.
InputRoot == <<"docs", "gitlab-code-review">>
OutputRoot == <<"docs", "extracted_scores">>

\* os.path.relpath(root, base_dir) for a directory at or below base_dir.
RelPath(dir, base) ==
    IF dir = base THEN <<".">> ELSE SubSeq(dir, Len(base) + 1, Len(dir))

\* Line 216: os.path.relpath(root, base_dir).split('code-review-scores')[0]
\* .strip('/'): the directories before the marker.
ProjectPath(dir) ==
    LET rel == RelPath(dir, OutputRoot)
    IN  SubSeq(rel, 1, FirstIndex(rel, MarkerDir) - 1)

\* Lines 203-208: the accumulators before the walk.
AggInit ==
    [sum_dict |-> [m \in AvgMetricSet |-> 0],
     count_dict |-> [m \in AvgMetricSet |-> 0],
     projects_set |-> {},
     total_files |-> 0]

\* Lines 213-243: one .json file of the walk.
AggFile(acc, path, rec) ==
    [sum_dict |-> [m \in AvgMetricSet |->
                     IF Contribution(rec, m) = None THEN acc.sum_dict[m]
                     ELSE acc.sum_dict[m] + Contribution(rec, m)[1]],
     count_dict |-> [m \in AvgMetricSet |->
                     IF Contribution(rec, m) = None THEN acc.count_dict[m]
                     ELSE acc.count_dict[m] + 1],
     projects_set |-> IF ProjectPath(path.dir) # <<>>
                      THEN acc.projects_set \cup {ProjectPath(path.dir)}
                      ELSE acc.projects_set,
     total_files |-> acc.total_files + 1]

\* Lines 210-245: the walk over the .json files below the root, in the order
\* given.
RECURSIVE AggWalk(_, _, _)
AggWalk(acc, fs, order) ==
    IF order = <<>> THEN acc
    ELSE AggWalk(IF Head(order).name.ext = ".json"
                 THEN AggFile(acc, Head(order), fs[Head(order)])
                 ELSE acc,
                 fs, Tail(order))

\* An order of the elements of a set.
RECURSIVE SeqOf(_)
SeqOf(S) ==
    IF S = {} THEN <<>>
    ELSE LET x == CHOOSE y \in S : TRUE IN <<x>> \o SeqOf(S \ {x})

\* Lines 247-260: the result.  The sorted list of the projects is held as
\* the set it lists.
AvgResults(acc) ==
    [k \in AvgMetricSet \cup {KeyMetadata} |->
        IF k = KeyMetadata
        THEN JDict([TotalFilesProcessed |-> acc.total_files,
                    TotalProjects |-> Cardinality(acc.projects_set),
                    ProjectsList |-> acc.projects_set])
        ELSE IF acc.count_dict[k] > 0
        THEN JFloat(Round2(acc.sum_dict[k], acc.count_dict[k]))
        ELSE JStr(NA)]

\* calculate_average_scores on the files below docs/extracted_scores.
calculate_average_scores(fs) ==
    AvgResults(AggWalk(AggInit, fs, SeqOf(DOMAIN fs)))

-----------------------------------------------------------------------------
(* process_markdown_files and save_average_scores *)

\* Lines 125, 137: root.replace("gitlab-code-review", "extracted_scores").
OutputDir(dir) ==
    [i \in DOMAIN dir |->
        IF dir[i] = InputRoot[2] THEN OutputRoot[2] ELSE dir[i]]

\* Lines 166-167: the path of the record of a document.
JsonPath(md) ==
    [dir |-> OutputDir(md.dir), name |-> [stem |-> md.name.stem, ext |-> ".json"]]

\* Line 264: the path of the summary.
SummaryPath ==
    [dir |-> OutputRoot,
     name |-> [stem |-> "summary_average_scores", ext |-> ".json"]]

\* Line 131: the .md files of a corpus.
MdPaths(c) == {p \in DOMAIN c : p.name.ext = ".md"}

\* Lines 176-177: the exception of a document is caught and logged, and the
\* loop goes on with the documents that are left.
AbortWalk(td) == <<>>

AfterException(td) == Tail(td)

\* Lines 262-270: save_average_scores writes the summary; the open fails,
\* and is logged, when the directory does not exist.
save_average_scores(fs, avg, dirExists) ==
    IF dirExists THEN DictSet(fs, SummaryPath, avg) ELSE fs

\* The documents a corpus is made of.
Slots ==
    <<[dir |-> InputRoot \o <<"otc", "sap", MarkerDir>>,
       name |-> [stem |-> "a", ext |-> ".md"]],
      [dir |-> InputRoot \o <<"otc", "sap", MarkerDir>>,
       name |-> [stem |-> "b", ext |-> ".md"]],
      [dir |-> InputRoot \o <<"hr", MarkerDir>>,
       name |-> [stem |-> "a", ext |-> ".md"]]>>

SlotSet == {Slots[i] : i \in DOMAIN Slots}

\* A file of the corpus that is no Markdown document.
OtherFile ==
    [dir |-> InputRoot \o <<"hr", MarkerDir>>,
     name |-> [stem |-> "notes", ext |-> ".txt"]]

DocTexts ==
    {<< <<Metrics[1], ":", " ", "7", "/", "10">>,
        <<PhraseOverall, " ", "6", "/", "10">> >>,
     << <<Metrics[2]>>,
        <<"12", "/", "10">>,
        <<PhraseOverall, " ", "8", "/", "10">> >>,
     << <<"#", " ", "Review">>, <<"text">> >>,
     << <<Metrics[1], ":", " ", "0", "/", "10">>,
        <<PhraseOverall, " ", "good">> >>}

Corpora ==
    UNION {{[p \in D \cup {OtherFile} |->
                IF p = OtherFile THEN <<<<"text">>>> ELSE f[p]] :
            f \in [D -> DocTexts]} : D \in SUBSET SlotSet}

\* How many runs of the pipeline are followed.
MaxRuns == 2

\* Lines 129-133: the walk reaches the .md files directory by directory.
WalkOrder(c) == SelectSeq(Slots, LAMBDA p : p \in MdPaths(c))

\* Before the first run: a corpus, and an output directory that is empty or
\* does not exist yet.
PipelineStart(corpora, dirs) ==
    /\ corpus \in corpora
    /\ outBase \in dirs
    /\ outBase0 = outBase
    /\ files = <<>>
    /\ pc = "idle"
    /\ todo = <<>>
    /\ files_processed = 0
    /\ runs = 0
    /\ failedNow = {}
    /\ clean = TRUE
    /\ summaries = <<>>
    /\ aggInput = <<>>
    /\ lastAvg = None

InitPipeline == PipelineStart(Corpora, BOOLEAN)

\* The pipeline at rest, for the specifications that do not run it.
IdlePipeline == PipelineStart({[p \in {OtherFile} |-> <<<<"text">>>>]}, {FALSE})

\* Lines 120-129: process_markdown_files starts.
StartRun ==
    /\ pc = "idle"
    /\ runs < MaxRuns
    /\ pc' = "walk"
    /\ todo' = WalkOrder(corpus)
    /\ files_processed' = 0
    /\ failedNow' = {}
    /\ UNCHANGED <<corpus, outBase, outBase0, files, runs, clean, summaries,
                   aggInput, lastAvg>>

\* Lines 138-174: the directory of the record exists (os.makedirs), the
\* document is read, its record is built and written, the counter goes up.
ProcessFileOk ==
    /\ pc = "walk"
    /\ todo # <<>>
    /\ outBase' = TRUE
    /\ files' = DictSet(files, JsonPath(Head(todo)), BuildRecord(corpus[Head(todo)]))
    /\ files_processed' = files_processed + 1
    /\ todo' = Tail(todo)
    /\ UNCHANGED <<corpus, outBase0, pc, runs, failedNow, clean, summaries,
                   aggInput, lastAvg>>

\* Lines 149-150, 176-177: reading the document raises.
ProcessFileReadFails ==
    /\ pc = "walk"
    /\ todo # <<>>
    /\ outBase' = TRUE
    /\ failedNow' = failedNow \cup {Head(todo)}
    /\ clean' = FALSE
    /\ todo' = AfterException(todo)
    /\ UNCHANGED <<corpus, outBase0, files, pc, files_processed, runs,
                   summaries, aggInput, lastAvg>>

\* Lines 170-171, 176-177: opening the record for writing raises.
ProcessFileWriteFails ==
    /\ pc = "walk"
    /\ todo # <<>>
    /\ outBase' = TRUE
    /\ failedNow' = failedNow \cup {Head(todo)}
    /\ clean' = FALSE
    /\ todo' = AfterException(todo)
    /\ UNCHANGED <<corpus, outBase0, files, pc, files_processed, runs,
                   summaries, aggInput, lastAvg>>

\* Lines 188-189: after the walk, calculate_average_scores and
\* save_average_scores.
Aggregate ==
    /\ pc = "walk"
    /\ todo = <<>>
    /\ LET avg == calculate_average_scores(files)
       IN  /\ files' = save_average_scores(files, avg, outBase)
           /\ lastAvg' = Some(avg)
           /\ summaries' = Append(summaries, IF outBase THEN Some(avg) ELSE None)
    /\ aggInput' = files
    /\ runs' = runs + 1
    /\ pc' = "idle"
    /\ UNCHANGED <<corpus, outBase, outBase0, todo, files_processed, failedNow,
                   clean>>

-----------------------------------------------------------------------------
(* The pipeline: the claims checked under SpecPipeline. *)

\* The field Metadata of a summary.
MetadataOf(avg) == avg[KeyMetadata].d

\* C1, as stated: two runs in a row over an unchanged corpus, the first one
\* starting from an empty output directory, and no document failing, write
\* the same summary: the second run's equals the first run's.
C1_SecondRunWritesSameSummary ==
    (Len(summaries) >= 2 /\ clean /\ outBase0) => summaries[2] = summaries[1]

\* The number a value supplies to a metric, in the words of C6: a number for
\* every metric, and for Overall Score also a string "<number>/...".
\* None when the value supplies none.
Supplied(metric, value) ==
    IF value.t \in {"int", "float"} THEN Some(ToFloat(value))
    ELSE IF metric = KeyOverall /\ value.t = "str"
            /\ \E i \in DOMAIN value.s :
                 value.s[i] = "/" /\ ParseFloat(Strip(SubSeq(value.s, 1, i - 1))) # None
    THEN LET i == CHOOSE i \in DOMAIN value.s :
                 value.s[i] = "/" /\ ParseFloat(Strip(SubSeq(value.s, 1, i - 1))) # None
         IN  ParseFloat(Strip(SubSeq(value.s, 1, i - 1)))
    ELSE None

\* The records of a set of files that supply a value to a metric.
Suppliers(fs, metric) ==
    {p \in DOMAIN fs :
        metric \in DOMAIN fs[p] /\ Supplied(metric, fs[p][metric]) # None}

RECURSIVE SumSupplied(_, _, _)
SumSupplied(fs, metric, P) ==
    IF P = {} THEN 0
    ELSE LET p == CHOOSE q \in P : TRUE
         IN  Supplied(metric, fs[p][metric])[1] + SumSupplied(fs, metric, P \ {p})

\* C6: for each of the eight metrics the aggregation reports the mean,
\* rounded to hundredths, over exactly the records it walked over that supply
\* a value for the metric, and "N/A" exactly when there is no such record.
C6_MeanOverSuppliers ==
    lastAvg # None =>
        \A m \in AvgMetricSet :
            LET P == Suppliers(aggInput, m)
            IN  /\ (P = {}) <=> (lastAvg[1][m] = JStr(NA))
                /\ P # {} =>
                     lastAvg[1][m] =
                        JFloat(Round2(SumSupplied(aggInput, m, P), Cardinality(P)))

\* Three records with Overall Score "6/10", "8/10" and "N/A" give 7.0 on a
\* count of 2, and a metric that only one record holds gives that value.
C6_Witness ==
    /\ lastAvg # None
    /\ Cardinality(DOMAIN aggInput) = 3
    /\ Cardinality(Suppliers(aggInput, KeyOverall)) = 2
    /\ \E p \in DOMAIN aggInput : aggInput[p][KeyOverall] = JStr(NA)
    /\ \E p \in DOMAIN aggInput : aggInput[p][KeyOverall] = JStr(<<"6", "/", "10">>)
    /\ \E p \in DOMAIN aggInput : aggInput[p][KeyOverall] = JStr(<<"8", "/", "10">>)
    /\ lastAvg[1][KeyOverall] = JFloat(700)
    /\ lastAvg[1][Metrics[2]] = JFloat(1200)
    /\ lastAvg[1][Metrics[3]] = JStr(NA)

\* The persisted score records among a set of files.
ScoreRecords(fs) == DOMAIN fs \ {SummaryPath}

\* C7, as stated: an aggregation that runs while no score record is
\* persisted returns "N/A" for each of the eight metrics and Total Files
\* Processed = 0.
C7_NoRecordsAllNotAvailable ==
    (lastAvg # None /\ ScoreRecords(aggInput) = {}) =>
        /\ \A m \in AvgMetricSet : lastAvg[1][m] = JStr(NA)
        /\ MetadataOf(lastAvg[1]).TotalFilesProcessed = 0

\* C8: when a run has ended, every document whose processing did not raise
\* in it is persisted with the record built from its text, the counter is
\* the number of those documents, and the run has aggregated after the walk
\* (every ended run has left a result of calculate_average_scores, computed
\* over the records that are persisted).
C8_FailureIsolated ==
    (pc = "idle" /\ runs > 0) =>
        /\ \A p \in MdPaths(corpus) \ failedNow :
              /\ JsonPath(p) \in DOMAIN files
              /\ files[JsonPath(p)] = BuildRecord(corpus[p])
        /\ files_processed = Cardinality(MdPaths(corpus) \ failedNow)
        /\ Len(summaries) = runs
        /\ lastAvg # None
        /\ \A q \in ScoreRecords(files) :
              q \in DOMAIN aggInput /\ aggInput[q] = files[q]

\* The first run has ended; its first document raised, the two after it are
\* persisted and counted, and the summary covers them.
C8_Witness ==
    /\ pc = "idle" /\ runs = 1
    /\ failedNow = {Slots[1]}
    /\ MdPaths(corpus) = SlotSet
    /\ files_processed = 2
    /\ JsonPath(Slots[1]) \notin DOMAIN files
    /\ {JsonPath(Slots[2]), JsonPath(Slots[3])} \subseteq DOMAIN files
    /\ MetadataOf(lastAvg[1]).TotalFilesProcessed = 2

-----------------------------------------------------------------------------
(* 01-extract-code-review.py: main and process_project *)

\* The status the code tests every response for.
HttpOk == 200

StatusCodes == {HttpOk, 404}

\* How many projects the group lists, and how many .md blobs a tree lists.
MaxProjects == 2
MaxFiles == 2

InitHarvest ==
    /\ hpc = "start"
    /\ total_projects = 0
    /\ projIdx = 0
    /\ nFiles = 0
    /\ fileIdx = 0
    /\ files_downloaded = 0
    /\ total_files_downloaded = 0
    /\ local = {}
    /\ decodeFailed = FALSE

\* Lines 113-126: the request for the root group; exit(1) unless it is 200.
GetGroupInfo ==
    /\ hpc = "start"
    /\ \E status \in StatusCodes :
         hpc' = IF status # HttpOk THEN "exit" ELSE "group"
    /\ UNCHANGED <<total_projects, projIdx, nFiles, fileIdx, files_downloaded,
                   total_files_downloaded, local, decodeFailed>>

\* Lines 128-139: the request for the projects; exit(1) unless it is 200.
ListProjects ==
    /\ hpc = "group"
    /\ \E status \in StatusCodes, n \in 0..MaxProjects :
         IF status # HttpOk
         THEN hpc' = "exit" /\ UNCHANGED total_projects
         ELSE hpc' = "projects" /\ total_projects' = n
    /\ projIdx' = 0
    /\ total_files_downloaded' = 0
    /\ UNCHANGED <<nFiles, fileIdx, files_downloaded, local, decodeFailed>>

\* Lines 140-142, 52-75: process_project returns 0 when the tree request is
\* not 200 or the tree lists no .md blob.
SkipProject ==
    /\ hpc = "projects"
    /\ projIdx < total_projects
    /\ \E status \in StatusCodes, k \in 0..MaxFiles :
         status # HttpOk \/ k = 0
    /\ projIdx' = projIdx + 1
    /\ UNCHANGED <<hpc, total_projects, nFiles, fileIdx, files_downloaded,
                   total_files_downloaded, local, decodeFailed>>

\* Lines 140-141, 52-78: process_project finds .md blobs to fetch.
EnterProject ==
    /\ hpc = "projects"
    /\ projIdx < total_projects
    /\ \E k \in 1..MaxFiles : nFiles' = k
    /\ fileIdx' = 0
    /\ files_downloaded' = 0
    /\ hpc' = "files"
    /\ UNCHANGED <<total_projects, projIdx, total_files_downloaded, local,
                   decodeFailed>>

\* Lines 92-102: the file request is 200 and its content decodes: the
\* document is written.
FetchFileOk ==
    /\ hpc = "files"
    /\ fileIdx < nFiles
    /\ local' = local \cup {<<projIdx + 1, fileIdx + 1>>}
    /\ files_downloaded' = files_downloaded + 1
    /\ fileIdx' = fileIdx + 1
    /\ UNCHANGED <<hpc, total_projects, projIdx, nFiles,
                   total_files_downloaded, decodeFailed>>

\* Lines 103-104: the file request is not 200: logged, the loop goes on.
FetchFileRejected ==
    /\ hpc = "files"
    /\ fileIdx < nFiles
    /\ fileIdx' = fileIdx + 1
    /\ UNCHANGED <<hpc, total_projects, projIdx, nFiles, files_downloaded,
                   total_files_downloaded, local, decodeFailed>>

\* Lines 95-98: the file request is 200, and response_file.json(),
\* file_data["content"], base64.b64decode or bytes.decode raises.  Neither
\* process_project nor main has a handler: the exception ends the run.
FetchFileUndecodable ==
    /\ hpc = "files"
    /\ fileIdx < nFiles
    /\ decodeFailed' = TRUE
    /\ hpc' = "crashed"
    /\ UNCHANGED <<total_projects, projIdx, nFiles, fileIdx, files_downloaded,
                   total_files_downloaded, local>>

\* Lines 106, 142: process_project returns its counter, main adds it.
EndProject ==
    /\ hpc = "files"
    /\ fileIdx = nFiles
    /\ total_files_downloaded' = total_files_downloaded + files_downloaded
    /\ projIdx' = projIdx + 1
    /\ hpc' = "projects"
    /\ UNCHANGED <<total_projects, nFiles, fileIdx, files_downloaded, local,
                   decodeFailed>>

\* Lines 144-151: the loop of main is over, the summary is printed.
Finish ==
    /\ hpc = "projects"
    /\ projIdx = total_projects
    /\ hpc' = "done"
    /\ UNCHANGED <<total_projects, projIdx, nFiles, fileIdx, files_downloaded,
                   total_files_downloaded, local, decodeFailed>>

\* C9, as stated: a document that cannot be decoded never aborts the batch:
\* the run goes on with the files and the projects that are left, and ends
\* with all of them visited.
C9_DecodeFailureDoesNotAbort ==
    decodeFailed =>
        /\ hpc # "crashed"
        /\ hpc = "done" => projIdx = total_projects

-----------------------------------------------------------------------------
(* The specifications: each runs one part of the program and leaves the    *)
(* state of the others as it is initially.                                 *)

Init ==
    InitScores /\ InitSections /\ InitNarrative /\ IdlePipeline /\ InitHarvest

\* extract_scores, line by line.
NextScores ==
    ScanLine /\ UNCHANGED <<secVars, narVars, pipeVars, harvestVars>>

SpecScores == Init /\ [][NextScores]_vars

\* extract_all_data, line by line.
NextSections ==
    ScanSectionLine /\ UNCHANGED <<scoreVars, narVars, pipeVars, harvestVars>>

SpecSections == Init /\ [][NextSections]_vars

\* extract_additional_fields, line by line.
NextNarrative ==
    ScanNarrativeLine /\ UNCHANGED <<scoreVars, secVars, pipeVars, harvestVars>>

SpecNarrative == Init /\ [][NextNarrative]_vars

\* The runs of the pipeline.
NextPipeline ==
    /\ \/ StartRun
       \/ ProcessFileOk
       \/ ProcessFileReadFails
       \/ ProcessFileWriteFails
       \/ Aggregate
    /\ UNCHANGED <<scoreVars, secVars, narVars, harvestVars>>

InitRuns ==
    InitScores /\ InitSections /\ InitNarrative /\ InitPipeline /\ InitHarvest

SpecPipeline == InitRuns /\ [][NextPipeline]_vars

\* The harvesting run.
NextHarvest ==
    /\ \/ GetGroupInfo
       \/ ListProjects
       \/ SkipProject
       \/ EnterProject
       \/ FetchFileOk
       \/ FetchFileRejected
       \/ FetchFileUndecodable
       \/ EndProject
       \/ Finish
    /\ UNCHANGED <<scoreVars, secVars, narVars, pipeVars>>

SpecHarvest == Init /\ [][NextHarvest]_vars

=============================================================================
